---- MODULE Spec2Model ----
(***************************************************************************)
(* State-machine model of the sebi fixed-price bond market program         *)
(* (blockchain/programs/sebi/src).  One action per instruction of the      *)
(* program: initialize_market, buy, sell, update_price, pause, withdraw.   *)
(* Each action runs the account validation of the instruction's Accounts   *)
(* struct, then the handler, and then commits or discards the handler's    *)
(* writes depending on the handler's Result.                               *)
(*                                                                         *)
(* Integer widths are scaled down so that the arithmetic stays inside the  *)
(* model checker's integers: u64 is the range 0..U64Max and u128 the range *)
(* 0..U128Max with U128Max + 1 = (U64Max + 1)^2, the relation that holds   *)
(* between 2^64 and 2^128.                                                 *)
(***************************************************************************)
EXTENDS Integers, Sequences, FiniteSets, TLC

\* Largest value of the (scaled) u64 type.
U64Max == 3

\* Largest value of the (scaled) u128 type.
U128Max == (U64Max + 1) * (U64Max + 1) - 1

\* Wallets that sign transactions.
Users == {"u1", "u2"}

\* The market account's own address (a program derived address); it is the
\* token authority of both vaults and can sign only through the program.
MarketPda == "market"

\* The wallet that creates the market (and so becomes its admin).
Creators == {"u1"}

\* The two token mints of the pair.
BondMint == "bond"
UsdcMint == "usdc"
Mints == {BondMint, UsdcMint}

\* A token account is identified by its owner (token authority) and its mint.
TokenAccounts == (Users \cup {MarketPda}) \X Mints

Owner(acct) == acct[1]
Mint(acct) == acct[2]

\* The token accounts created for the market by initialize_market.
VaultBond == <<MarketPda, BondMint>>
VaultUsdc == <<MarketPda, UsdcMint>>

\* Inputs of the instructions.
Amounts == 0..U64Max
PriceInputs == {0, 1, 2, U128Max}

\* Value of an Option that is None / of a failed conversion.
None == -1

\* Token holdings of the wallets before the market is created.
InitAmount(acct) ==
    IF Owner(acct) = MarketPda THEN 0
    ELSE IF acct = <<"u1", UsdcMint>> THEN 2
    ELSE IF acct = <<"u2", BondMint>> THEN 2
    ELSE 0

VARIABLES
    market,     \* the Market account (state.rs), with exists = FALSE before init
    bal,        \* amount field of every token account
    last,       \* the last instruction processed: its inputs, its result, the
                \* state it started from and the events it emitted
    prev,       \* the instruction before it, when the two make a buy-then-sell
                \* or a pause-then-pause sequence of successful calls
    inflight,   \* per transaction slot: the transaction being executed, with
                \* the accounts as it loaded them
    round       \* the calls submitted together since the last quiescent
                \* state, that state, and what the calls returned and logged

vars == <<market, bal, last, prev, inflight, round>>

\* Transactions that may be in execution at the same time.
Slots == {"tx_a", "tx_b"}

\* The Market account before initialize_market has created it.
NoMarket ==
    [exists |-> FALSE, bond_mint |-> "none", usdc_mint |-> "none",
     price_per_token |-> 0, vault_bond |-> <<"none", "none">>,
     vault_usdc |-> <<"none", "none">>, admin |-> "none", paused |-> FALSE]

\* u128::checked_mul
CheckedMul(a, b) == IF a * b > U128Max THEN None ELSE a * b

\* Variant: the total narrowed with a wrapping cast instead of try_into.
TryIntoU64_Wrapping(x) == x % (U64Max + 1)

\* u64::try_from(u128)
TryIntoU64(x) == IF x > U64Max THEN None ELSE x

\* Variant: the destination is credited but the source is not debited.
Transfer_SkipsDebit(b, from, to, authority, amount) ==
    IF b[from] < amount THEN [err |-> "InsufficientFunds", bal |-> b]
    ELSE IF Mint(from) # Mint(to) THEN [err |-> "MintMismatch", bal |-> b]
    ELSE IF authority # Owner(from) THEN [err |-> "OwnerMismatch", bal |-> b]
    ELSE IF from = to THEN [err |-> "Ok", bal |-> b]
    ELSE IF b[to] + amount > U64Max THEN [err |-> "Overflow", bal |-> b]
    ELSE [err |-> "Ok", bal |-> [b EXCEPT ![to] = @ + amount]]

\* Result of one token::transfer CPI: the token program's error or "Ok", and
\* the token account amounts after it.
Transfer(b, from, to, authority, amount) ==
    IF b[from] < amount THEN [err |-> "InsufficientFunds", bal |-> b]
    ELSE IF Mint(from) # Mint(to) THEN [err |-> "MintMismatch", bal |-> b]
    ELSE IF authority # Owner(from) THEN [err |-> "OwnerMismatch", bal |-> b]
    ELSE IF from = to THEN [err |-> "Ok", bal |-> b]
    ELSE IF b[to] + amount > U64Max THEN [err |-> "Overflow", bal |-> b]
    ELSE [err |-> "Ok",
          bal |-> [b EXCEPT ![from] = @ - amount, ![to] = @ + amount]]

\* What a handler leaves behind when it returns: its Result, the accounts as
\* written so far, and the events emitted so far.
Out(res, m, b, ev) == [res |-> res, market |-> m, bal |-> b, events |-> ev]

TradeEvent(m, trader, side, amount, price) ==
    [market |-> MarketPda, trader |-> trader, side |-> side,
     amount |-> amount, price |-> price]

\* Loading an Account<Market> that was never created.
LoadMarket(m) == IF m.exists THEN "Ok" ELSE "AccountNotInitialized"

(***************************************************************************)
(* initialize_market                                                       *)
(***************************************************************************)

\* Variant: the market account is declared init_if_needed, so an existing
\* market is initialized again.
InitializeAccounts_InitIfNeeded(m, accs) == "Ok"

\* #[derive(Accounts)] InitializeMarket: `init` of the market account at the
\* address derived from the bond mint fails when that account already exists.
InitializeAccounts(m, accs) ==
    IF m.exists THEN "AccountAlreadyInUse" ELSE "Ok"

\* The two `init` token accounts of InitializeMarket: created empty, with
\* the market account as their token authority.
CreateVaults(b, accs) ==
    [b EXCEPT ![accs.vault_bond] = 0, ![accs.vault_usdc] = 0]

InitializeHandler(m, b, accs, price_per_token) ==
    Out("Ok",
        [exists |-> TRUE,
         bond_mint |-> accs.bond_mint,
         usdc_mint |-> accs.usdc_mint,
         price_per_token |-> price_per_token,
         vault_bond |-> accs.vault_bond,
         vault_usdc |-> accs.vault_usdc,
         admin |-> accs.admin,
         paused |-> FALSE],
        b,
        <<>>)

(***************************************************************************)
(* buy                                                                     *)
(***************************************************************************)

\* #[derive(Accounts)] Buy
BuyAccounts(m, accs) ==
    IF LoadMarket(m) # "Ok" THEN LoadMarket(m)
    ELSE IF Owner(accs.buyer_usdc) # accs.buyer THEN "ConstraintRaw"
    ELSE IF Owner(accs.buyer_bond) # accs.buyer THEN "ConstraintRaw"
    ELSE IF accs.vault_usdc # m.vault_usdc THEN "ConstraintRaw"
    ELSE IF accs.vault_bond # m.vault_bond THEN "ConstraintRaw"
    ELSE "Ok"

\* Variant: the buyer is charged the quantity instead of the total price.
BuyHandler_ChargesAmount(m, b, accs, amount) ==
    LET price_u128 == m.price_per_token
        total_price_u128 == CheckedMul(price_u128, amount)
        total_price_u64 == TryIntoU64(total_price_u128)
        t1 == Transfer(b, accs.buyer_usdc, accs.vault_usdc, accs.buyer,
                       amount)
        t2 == Transfer(t1.bal, accs.vault_bond, accs.buyer_bond, MarketPda,
                       amount)
    IN  IF m.paused THEN Out("MarketPaused", m, b, <<>>)
        ELSE IF total_price_u128 = None THEN Out("MathOverflow", m, b, <<>>)
        ELSE IF total_price_u64 = None THEN Out("MathOverflow", m, b, <<>>)
        ELSE IF t1.err # "Ok" THEN Out(t1.err, m, t1.bal, <<>>)
        ELSE IF t2.err # "Ok" THEN Out(t2.err, m, t2.bal, <<>>)
        ELSE Out("Ok", m, t2.bal,
                 <<TradeEvent(m, accs.buyer, "Buy", amount, price_u128)>>)

\* Variant: the total is computed before the pause gate is consulted.
BuyHandler_MathBeforePause(m, b, accs, amount) ==
    LET price_u128 == m.price_per_token
        total_price_u128 == CheckedMul(price_u128, amount)
        total_price_u64 == TryIntoU64(total_price_u128)
        t1 == Transfer(b, accs.buyer_usdc, accs.vault_usdc, accs.buyer,
                       total_price_u64)
        t2 == Transfer(t1.bal, accs.vault_bond, accs.buyer_bond, MarketPda,
                       amount)
    IN  IF total_price_u128 = None THEN Out("MathOverflow", m, b, <<>>)
        ELSE IF total_price_u64 = None THEN Out("MathOverflow", m, b, <<>>)
        ELSE IF m.paused THEN Out("MarketPaused", m, b, <<>>)
        ELSE IF t1.err # "Ok" THEN Out(t1.err, m, t1.bal, <<>>)
        ELSE IF t2.err # "Ok" THEN Out(t2.err, m, t2.bal, <<>>)
        ELSE Out("Ok", m, t2.bal,
                 <<TradeEvent(m, accs.buyer, "Buy", amount, price_u128)>>)

\* Variant: the bond transfer is passed the total price as its amount.
BuyHandler_DeliversTotal(m, b, accs, amount) ==
    LET price_u128 == m.price_per_token
        total_price_u128 == CheckedMul(price_u128, amount)
        total_price_u64 == TryIntoU64(total_price_u128)
        t1 == Transfer(b, accs.buyer_usdc, accs.vault_usdc, accs.buyer,
                       total_price_u64)
        t2 == Transfer(t1.bal, accs.vault_bond, accs.buyer_bond, MarketPda,
                       total_price_u64)
    IN  IF m.paused THEN Out("MarketPaused", m, b, <<>>)
        ELSE IF total_price_u128 = None THEN Out("MathOverflow", m, b, <<>>)
        ELSE IF total_price_u64 = None THEN Out("MathOverflow", m, b, <<>>)
        ELSE IF t1.err # "Ok" THEN Out(t1.err, m, t1.bal, <<>>)
        ELSE IF t2.err # "Ok" THEN Out(t2.err, m, t2.bal, <<>>)
        ELSE Out("Ok", m, t2.bal,
                 <<TradeEvent(m, accs.buyer, "Buy", amount, price_u128)>>)

BuyHandler(m, b, accs, amount) ==
    LET price_u128 == m.price_per_token
        total_price_u128 == CheckedMul(price_u128, amount)
        total_price_u64 == TryIntoU64(total_price_u128)
        \* transfer USDC from buyer -> vault_usdc
        t1 == Transfer(b, accs.buyer_usdc, accs.vault_usdc, accs.buyer,
                       total_price_u64)
        \* transfer bonds from vault -> buyer, signed by PDA
        t2 == Transfer(t1.bal, accs.vault_bond, accs.buyer_bond, MarketPda,
                       amount)
    IN  IF m.paused THEN Out("MarketPaused", m, b, <<>>)
        ELSE IF total_price_u128 = None THEN Out("MathOverflow", m, b, <<>>)
        ELSE IF total_price_u64 = None THEN Out("MathOverflow", m, b, <<>>)
        ELSE IF t1.err # "Ok" THEN Out(t1.err, m, t1.bal, <<>>)
        ELSE IF t2.err # "Ok" THEN Out(t2.err, m, t2.bal, <<>>)
        ELSE Out("Ok", m, t2.bal,
                 <<TradeEvent(m, accs.buyer, "Buy", amount, price_u128)>>)

(***************************************************************************)
(* sell                                                                    *)
(***************************************************************************)

\* #[derive(Accounts)] Sell
SellAccounts(m, accs) ==
    IF LoadMarket(m) # "Ok" THEN LoadMarket(m)
    ELSE IF Owner(accs.seller_bond) # accs.seller THEN "ConstraintRaw"
    ELSE IF Owner(accs.seller_usdc) # accs.seller THEN "ConstraintRaw"
    ELSE IF accs.vault_bond # m.vault_bond THEN "ConstraintRaw"
    ELSE IF accs.vault_usdc # m.vault_usdc THEN "ConstraintRaw"
    ELSE "Ok"

\* Variant: the seller is paid the quantity instead of the total price.
SellHandler_PaysAmount(m, b, accs, amount) ==
    LET price_u128 == m.price_per_token
        total_price_u128 == CheckedMul(price_u128, amount)
        total_price_u64 == TryIntoU64(total_price_u128)
        t1 == Transfer(b, accs.seller_bond, accs.vault_bond, accs.seller,
                       amount)
        vault_balance == b[accs.vault_usdc]
        t2 == Transfer(t1.bal, accs.vault_usdc, accs.seller_usdc, MarketPda,
                       amount)
    IN  IF m.paused THEN Out("MarketPaused", m, b, <<>>)
        ELSE IF total_price_u128 = None THEN Out("MathOverflow", m, b, <<>>)
        ELSE IF total_price_u64 = None THEN Out("MathOverflow", m, b, <<>>)
        ELSE IF t1.err # "Ok" THEN Out(t1.err, m, t1.bal, <<>>)
        ELSE IF vault_balance < total_price_u64
             THEN Out("InsufficientVaultFunds", m, t1.bal, <<>>)
        ELSE IF t2.err # "Ok" THEN Out(t2.err, m, t2.bal, <<>>)
        ELSE Out("Ok", m, t2.bal,
                 <<TradeEvent(m, accs.seller, "Sell", amount, price_u128)>>)

\* Variant: the vault check rejects a vault that holds exactly the total.
SellHandler_CheckOffByOne(m, b, accs, amount) ==
    LET price_u128 == m.price_per_token
        total_price_u128 == CheckedMul(price_u128, amount)
        total_price_u64 == TryIntoU64(total_price_u128)
        t1 == Transfer(b, accs.seller_bond, accs.vault_bond, accs.seller,
                       amount)
        vault_balance == b[accs.vault_usdc]
        t2 == Transfer(t1.bal, accs.vault_usdc, accs.seller_usdc, MarketPda,
                       total_price_u64)
    IN  IF m.paused THEN Out("MarketPaused", m, b, <<>>)
        ELSE IF total_price_u128 = None THEN Out("MathOverflow", m, b, <<>>)
        ELSE IF total_price_u64 = None THEN Out("MathOverflow", m, b, <<>>)
        ELSE IF t1.err # "Ok" THEN Out(t1.err, m, t1.bal, <<>>)
        ELSE IF vault_balance <= total_price_u64
             THEN Out("InsufficientVaultFunds", m, t1.bal, <<>>)
        ELSE IF t2.err # "Ok" THEN Out(t2.err, m, t2.bal, <<>>)
        ELSE Out("Ok", m, t2.bal,
                 <<TradeEvent(m, accs.seller, "Sell", amount, price_u128)>>)

\* Variant: the sell handler's event carries the side of the buy handler.
SellHandler_EventSideBuy(m, b, accs, amount) ==
    LET price_u128 == m.price_per_token
        total_price_u128 == CheckedMul(price_u128, amount)
        total_price_u64 == TryIntoU64(total_price_u128)
        t1 == Transfer(b, accs.seller_bond, accs.vault_bond, accs.seller,
                       amount)
        vault_balance == b[accs.vault_usdc]
        t2 == Transfer(t1.bal, accs.vault_usdc, accs.seller_usdc, MarketPda,
                       total_price_u64)
    IN  IF m.paused THEN Out("MarketPaused", m, b, <<>>)
        ELSE IF total_price_u128 = None THEN Out("MathOverflow", m, b, <<>>)
        ELSE IF total_price_u64 = None THEN Out("MathOverflow", m, b, <<>>)
        ELSE IF t1.err # "Ok" THEN Out(t1.err, m, t1.bal, <<>>)
        ELSE IF vault_balance < total_price_u64
             THEN Out("InsufficientVaultFunds", m, t1.bal, <<>>)
        ELSE IF t2.err # "Ok" THEN Out(t2.err, m, t2.bal, <<>>)
        ELSE Out("Ok", m, t2.bal,
                 <<TradeEvent(m, accs.seller, "Buy", amount, price_u128)>>)

\* Variant: the seller is paid although the bond deposit did not go through.
SellHandler_IgnoresDepositError(m, b, accs, amount) ==
    LET price_u128 == m.price_per_token
        total_price_u128 == CheckedMul(price_u128, amount)
        total_price_u64 == TryIntoU64(total_price_u128)
        t1 == Transfer(b, accs.seller_bond, accs.vault_bond, accs.seller,
                       amount)
        vault_balance == b[accs.vault_usdc]
        t2 == Transfer(t1.bal, accs.vault_usdc, accs.seller_usdc, MarketPda,
                       total_price_u64)
    IN  IF m.paused THEN Out("MarketPaused", m, b, <<>>)
        ELSE IF total_price_u128 = None THEN Out("MathOverflow", m, b, <<>>)
        ELSE IF total_price_u64 = None THEN Out("MathOverflow", m, b, <<>>)
        ELSE IF vault_balance < total_price_u64
             THEN Out("InsufficientVaultFunds", m, t1.bal, <<>>)
        ELSE IF t2.err # "Ok" THEN Out(t2.err, m, t2.bal, <<>>)
        ELSE Out("Ok", m, t2.bal,
                 <<TradeEvent(m, accs.seller, "Sell", amount, price_u128)>>)

\* Variant: the vault check runs before the seller's bond transfer.
SellHandler_CheckBeforeDebit(m, b, accs, amount) ==
    LET price_u128 == m.price_per_token
        total_price_u128 == CheckedMul(price_u128, amount)
        total_price_u64 == TryIntoU64(total_price_u128)
        t1 == Transfer(b, accs.seller_bond, accs.vault_bond, accs.seller,
                       amount)
        vault_balance == b[accs.vault_usdc]
        t2 == Transfer(t1.bal, accs.vault_usdc, accs.seller_usdc, MarketPda,
                       total_price_u64)
    IN  IF m.paused THEN Out("MarketPaused", m, b, <<>>)
        ELSE IF total_price_u128 = None THEN Out("MathOverflow", m, b, <<>>)
        ELSE IF total_price_u64 = None THEN Out("MathOverflow", m, b, <<>>)
        ELSE IF vault_balance < total_price_u64
             THEN Out("InsufficientVaultFunds", m, b, <<>>)
        ELSE IF t1.err # "Ok" THEN Out(t1.err, m, t1.bal, <<>>)
        ELSE IF t2.err # "Ok" THEN Out(t2.err, m, t2.bal, <<>>)
        ELSE Out("Ok", m, t2.bal,
                 <<TradeEvent(m, accs.seller, "Sell", amount, price_u128)>>)

SellHandler(m, b, accs, amount) ==
    LET price_u128 == m.price_per_token
        total_price_u128 == CheckedMul(price_u128, amount)
        total_price_u64 == TryIntoU64(total_price_u128)
        \* transfer bond tokens from seller -> vault (seller signs)
        t1 == Transfer(b, accs.seller_bond, accs.vault_bond, accs.seller,
                       amount)
        \* the amount field of the vault_usdc account as it was loaded when
        \* the instruction started
        vault_balance == b[accs.vault_usdc]
        \* transfer USDC from vault -> seller, signed by PDA
        t2 == Transfer(t1.bal, accs.vault_usdc, accs.seller_usdc, MarketPda,
                       total_price_u64)
    IN  IF m.paused THEN Out("MarketPaused", m, b, <<>>)
        ELSE IF total_price_u128 = None THEN Out("MathOverflow", m, b, <<>>)
        ELSE IF total_price_u64 = None THEN Out("MathOverflow", m, b, <<>>)
        ELSE IF t1.err # "Ok" THEN Out(t1.err, m, t1.bal, <<>>)
        ELSE IF vault_balance < total_price_u64
             THEN Out("InsufficientVaultFunds", m, t1.bal, <<>>)
        ELSE IF t2.err # "Ok" THEN Out(t2.err, m, t2.bal, <<>>)
        ELSE Out("Ok", m, t2.bal,
                 <<TradeEvent(m, accs.seller, "Sell", amount, price_u128)>>)

(***************************************************************************)
(* update_price                                                            *)
(***************************************************************************)

\* #[derive(Accounts)] UpdatePrice
UpdatePriceAccounts(m, accs) ==
    IF LoadMarket(m) # "Ok" THEN LoadMarket(m)
    ELSE IF m.admin # accs.admin THEN "ConstraintHasOne"
    ELSE "Ok"

\* Variant: update_price validates a lower bound and rejects a zero price.
UpdatePriceHandler_RejectsZero(m, b, accs, new_price) ==
    IF accs.admin # m.admin THEN Out("Unauthorized", m, b, <<>>)
    ELSE IF new_price = 0 THEN Out("InvalidPrice", m, b, <<>>)
    ELSE Out("Ok", [m EXCEPT !.price_per_token = new_price], b, <<>>)

\* Variant: update_price also clears the pause flag.
UpdatePriceHandler_AlsoUnpauses(m, b, accs, new_price) ==
    IF accs.admin # m.admin THEN Out("Unauthorized", m, b, <<>>)
    ELSE Out("Ok",
             [m EXCEPT !.price_per_token = new_price, !.paused = FALSE],
             b, <<>>)

UpdatePriceHandler(m, b, accs, new_price) ==
    IF accs.admin # m.admin THEN Out("Unauthorized", m, b, <<>>)
    ELSE Out("Ok", [m EXCEPT !.price_per_token = new_price], b, <<>>)

(***************************************************************************)
(* pause                                                                   *)
(***************************************************************************)

\* #[derive(Accounts)] Pause
PauseAccounts(m, accs) ==
    IF LoadMarket(m) # "Ok" THEN LoadMarket(m)
    ELSE IF m.admin # accs.admin THEN "ConstraintHasOne"
    ELSE "Ok"

\* Variant: pause sets the flag instead of flipping it.
PauseHandler_SetsPaused(m, b, accs) ==
    IF accs.admin # m.admin THEN Out("Unauthorized", m, b, <<>>)
    ELSE Out("Ok", [m EXCEPT !.paused = TRUE], b, <<>>)

\* Variant: pause also writes the default key into the admin field.
PauseHandler_ClearsAdmin(m, b, accs) ==
    IF accs.admin # m.admin THEN Out("Unauthorized", m, b, <<>>)
    ELSE Out("Ok", [m EXCEPT !.paused = ~m.paused, !.admin = "none"], b, <<>>)

PauseHandler(m, b, accs) ==
    IF accs.admin # m.admin THEN Out("Unauthorized", m, b, <<>>)
    ELSE Out("Ok", [m EXCEPT !.paused = ~m.paused], b, <<>>)

(***************************************************************************)
(* withdraw                                                                *)
(***************************************************************************)

\* #[derive(Accounts)] Withdraw
WithdrawAccounts(m, accs) ==
    IF LoadMarket(m) # "Ok" THEN LoadMarket(m)
    ELSE IF m.admin # accs.admin THEN "ConstraintHasOne"
    ELSE IF Owner(accs.destination) # accs.admin THEN "ConstraintRaw"
    ELSE IF accs.vault_bond # m.vault_bond THEN "ConstraintRaw"
    ELSE IF accs.vault_usdc # m.vault_usdc THEN "ConstraintRaw"
    ELSE "Ok"

\* Variant: the selector picks the other vault.
WithdrawHandler_SelectorInverted(m, b, accs, amount, is_usdc) ==
    LET t == IF ~is_usdc
             THEN Transfer(b, accs.vault_usdc, accs.destination, MarketPda,
                           amount)
             ELSE Transfer(b, accs.vault_bond, accs.destination, MarketPda,
                           amount)
    IN  IF accs.admin # m.admin THEN Out("Unauthorized", m, b, <<>>)
        ELSE Out(t.err, m, t.bal, <<>>)

\* Variant: withdraw is gated by the pause flag like the trades.
WithdrawHandler_PauseGated(m, b, accs, amount, is_usdc) ==
    LET t == IF is_usdc
             THEN Transfer(b, accs.vault_usdc, accs.destination, MarketPda,
                           amount)
             ELSE Transfer(b, accs.vault_bond, accs.destination, MarketPda,
                           amount)
    IN  IF accs.admin # m.admin THEN Out("Unauthorized", m, b, <<>>)
        ELSE IF m.paused THEN Out("MarketPaused", m, b, <<>>)
        ELSE Out(t.err, m, t.bal, <<>>)

WithdrawHandler(m, b, accs, amount, is_usdc) ==
    LET t == IF is_usdc
             THEN Transfer(b, accs.vault_usdc, accs.destination, MarketPda,
                           amount)
             ELSE Transfer(b, accs.vault_bond, accs.destination, MarketPda,
                           amount)
    IN  IF accs.admin # m.admin THEN Out("Unauthorized", m, b, <<>>)
        ELSE Out(t.err, m, t.bal, <<>>)

(***************************************************************************)
(* The program entry points: an instruction whose account validation or    *)
(* handler returns Err leaves no account changed and no event logged; one  *)
(* that returns Ok has its account writes and events committed.            *)
(***************************************************************************)
\* Variant: the account writes of a failed handler are kept.
Commit_KeepsWrites(m, b, checked, out) ==
    IF checked # "Ok" THEN Out(checked, m, b, <<>>)
    ELSE out

Commit(m, b, checked, out) ==
    IF checked # "Ok" THEN Out(checked, m, b, <<>>)
    ELSE IF out.res # "Ok" THEN Out(out.res, m, b, <<>>)
    ELSE out

\* The record kept of an instruction: what was asked, by whom, from which
\* state, and what came of it.
Call(op, caller, amount, price, is_usdc, destination, done) ==
    [op |-> op, caller |-> caller, amount |-> amount, price |-> price,
     is_usdc |-> is_usdc, destination |-> destination,
     res |-> done.res, events |-> done.events,
     market |-> market, bal |-> bal]

NoCall ==
    [op |-> "none", caller |-> "none", amount |-> 0, price |-> 0,
     is_usdc |-> FALSE, destination |-> <<"none", "none">>,
     res |-> "none", events |-> <<>>,
     market |-> NoMarket, bal |-> [a \in TokenAccounts |-> 0]]

\* A successful buy directly followed by a successful sell, or a successful
\* pause directly followed by a successful pause: the two-call sequences whose
\* first call is kept in prev once the second has run.
Pairs(first, second) ==
    /\ first.res = "Ok"
    /\ second.res = "Ok"
    /\ \/ first.op = "Buy" /\ second.op = "Sell"
       \/ first.op = "Pause" /\ second.op = "Pause"

Apply(done, call) ==
    /\ market' = done.market
    /\ bal' = done.bal
    /\ prev' = IF Pairs(last, call) THEN last ELSE NoCall
    /\ last' = call
    /\ UNCHANGED <<inflight, round>>

\* A transaction slot with nothing in execution.
IdleSlot == [busy |-> FALSE, call |-> NoCall]

\* A round in which nothing has been submitted yet, starting from m and b.
NewRound(m, b) ==
    [market |-> m, bal |-> b, calls |-> <<>>, res |-> <<>>, log |-> <<>>,
     finished |-> 0]

Init ==
    /\ market = NoMarket
    /\ bal = [a \in TokenAccounts |-> InitAmount(a)]
    /\ last = NoCall
    /\ prev = NoCall
    /\ inflight = [s \in Slots |-> IdleSlot]
    /\ round = NewRound(market, bal)

\* The initialize_market instruction signed by `admin`, run on m and b.
InitializeOutcome(m, b, admin, price_per_token) ==
    LET accs == [admin |-> admin, bond_mint |-> BondMint,
                 usdc_mint |-> UsdcMint, vault_bond |-> VaultBond,
                 vault_usdc |-> VaultUsdc]
    IN  Commit(m, b, InitializeAccounts(m, accs),
               InitializeHandler(m, CreateVaults(b, accs), accs,
                                 price_per_token))

Initialize(admin, price_per_token) ==
    LET done == InitializeOutcome(market, bal, admin, price_per_token)
    IN  Apply(done, Call("Initialize", admin, 0, price_per_token, FALSE,
                         <<"none", "none">>, done))

\* The buy instruction sent by `buyer` with the buyer's own token accounts,
\* run on Market record m and balances b.
BuyOutcome(m, b, buyer, amount) ==
    LET accs == [buyer |-> buyer, buyer_usdc |-> <<buyer, UsdcMint>>,
                 buyer_bond |-> <<buyer, BondMint>>,
                 vault_usdc |-> VaultUsdc, vault_bond |-> VaultBond]
    IN  Commit(m, b, BuyAccounts(m, accs), BuyHandler(m, b, accs, amount))

Buy(buyer, amount) ==
    LET done == BuyOutcome(market, bal, buyer, amount)
    IN  Apply(done, Call("Buy", buyer, amount, 0, FALSE,
                         <<"none", "none">>, done))

\* The sell instruction sent by `seller` with the seller's own token accounts,
\* run on Market record m and balances b.
SellOutcome(m, b, seller, amount) ==
    LET accs == [seller |-> seller, seller_bond |-> <<seller, BondMint>>,
                 seller_usdc |-> <<seller, UsdcMint>>,
                 vault_bond |-> VaultBond, vault_usdc |-> VaultUsdc]
    IN  Commit(m, b, SellAccounts(m, accs), SellHandler(m, b, accs, amount))

Sell(seller, amount) ==
    LET done == SellOutcome(market, bal, seller, amount)
    IN  Apply(done, Call("Sell", seller, amount, 0, FALSE,
                         <<"none", "none">>, done))

\* The update_price instruction signed by `admin`, run on m and b.
UpdatePriceOutcome(m, b, admin, new_price) ==
    LET accs == [admin |-> admin]
    IN  Commit(m, b, UpdatePriceAccounts(m, accs),
               UpdatePriceHandler(m, b, accs, new_price))

UpdatePrice(admin, new_price) ==
    LET done == UpdatePriceOutcome(market, bal, admin, new_price)
    IN  Apply(done, Call("UpdatePrice", admin, 0, new_price, FALSE,
                         <<"none", "none">>, done))

\* The pause instruction signed by `admin`, run on m and b.
PauseOutcome(m, b, admin) ==
    LET accs == [admin |-> admin]
    IN  Commit(m, b, PauseAccounts(m, accs), PauseHandler(m, b, accs))

Pause(admin) ==
    LET done == PauseOutcome(market, bal, admin)
    IN  Apply(done, Call("Pause", admin, 0, 0, FALSE,
                         <<"none", "none">>, done))

\* The withdraw instruction signed by `admin`, run on m and b.
WithdrawOutcome(m, b, admin, destination, amount, is_usdc) ==
    LET accs == [admin |-> admin, destination |-> destination,
                 vault_bond |-> VaultBond, vault_usdc |-> VaultUsdc]
    IN  Commit(m, b, WithdrawAccounts(m, accs),
               WithdrawHandler(m, b, accs, amount, is_usdc))

Withdraw(admin, destination, amount, is_usdc) ==
    LET done == WithdrawOutcome(market, bal, admin, destination, amount,
                                is_usdc)
    IN  Apply(done, Call("Withdraw", admin, amount, 0, is_usdc,
                         destination, done))

Next ==
    \/ \E admin \in Creators, price \in PriceInputs : Initialize(admin, price)
    \/ \E buyer \in Users, amount \in Amounts : Buy(buyer, amount)
    \/ \E seller \in Users, amount \in Amounts : Sell(seller, amount)
    \/ \E admin \in Users, price \in PriceInputs : UpdatePrice(admin, price)
    \/ \E admin \in Users : Pause(admin)
    \/ \E admin \in Users, destination \in Users \X Mints,
          amount \in Amounts, is_usdc \in BOOLEAN :
            Withdraw(admin, destination, amount, is_usdc)

Spec == Init /\ [][Next]_vars

(***************************************************************************)
(* Properties.  They are stated over the record of the last instruction    *)
(* (last), which holds the state the instruction started from, and the     *)
(* state it left (market, bal).                                            *)
(***************************************************************************)

\* The caller's own token accounts.
UsdcOf(user) == <<user, UsdcMint>>
BondOf(user) == <<user, BondMint>>

\* The last instruction was a buy / a sell on an existing market.
LastBuy == last.op = "Buy" /\ last.market.exists
LastSell == last.op = "Sell" /\ last.market.exists

\* price_per_unit * quantity of the last trade, as a mathematical integer.
LastTotal == last.market.price_per_token * last.amount

\* The last instruction changed neither the Market record nor any balance.
NothingChanged == market = last.market /\ bal = last.bal

\* C1: on an unpaused market, a buy of q at price p with p*q within u64, the
\* buyer holding at least p*q stable units and vault_bond at least q bond
\* units succeeds; it moves exactly p*q stable units from the buyer to
\* vault_usdc and exactly q bond units from vault_bond to the buyer, and no
\* other balance (and no Market field) changes.
C1_BuyEffect ==
    (/\ LastBuy
     /\ ~last.market.paused
     /\ LastTotal <= U64Max
     /\ last.bal[UsdcOf(last.caller)] >= LastTotal
     /\ last.bal[VaultBond] >= last.amount)
    => /\ last.res = "Ok"
       /\ bal[UsdcOf(last.caller)] = last.bal[UsdcOf(last.caller)] - LastTotal
       /\ bal[VaultUsdc] = last.bal[VaultUsdc] + LastTotal
       /\ bal[VaultBond] = last.bal[VaultBond] - last.amount
       /\ bal[BondOf(last.caller)] = last.bal[BondOf(last.caller)] + last.amount
       /\ \A a \in TokenAccounts :
            a \notin {UsdcOf(last.caller), BondOf(last.caller),
                      VaultUsdc, VaultBond} => bal[a] = last.bal[a]
       /\ market = last.market

\* A buy at a price of 2 or more went through and the vault received the
\* total, which differs from the quantity.
C1_Witness ==
    /\ LastBuy
    /\ last.res = "Ok"
    /\ last.amount >= 1
    /\ last.market.price_per_token >= 2
    /\ bal[VaultUsdc] = last.bal[VaultUsdc] + LastTotal

\* C2: on an unpaused market, a sell of q at price p with p*q within u64, the
\* seller holding at least q bond units and vault_usdc at least p*q stable
\* units succeeds; it moves exactly q bond units from the seller to vault_bond
\* and exactly p*q stable units from vault_usdc to the seller, and no other
\* balance (and no Market field) changes.
C2_SellEffect ==
    (/\ LastSell
     /\ ~last.market.paused
     /\ LastTotal <= U64Max
     /\ last.bal[BondOf(last.caller)] >= last.amount
     /\ last.bal[VaultUsdc] >= LastTotal)
    => /\ last.res = "Ok"
       /\ bal[BondOf(last.caller)] = last.bal[BondOf(last.caller)] - last.amount
       /\ bal[VaultBond] = last.bal[VaultBond] + last.amount
       /\ bal[VaultUsdc] = last.bal[VaultUsdc] - LastTotal
       /\ bal[UsdcOf(last.caller)] = last.bal[UsdcOf(last.caller)] + LastTotal
       /\ \A a \in TokenAccounts :
            a \notin {UsdcOf(last.caller), BondOf(last.caller),
                      VaultUsdc, VaultBond} => bal[a] = last.bal[a]
       /\ market = last.market

\* A sell at a price of 2 or more went through and paid out the total.
C2_Witness ==
    /\ LastSell
    /\ last.res = "Ok"
    /\ last.amount >= 1
    /\ last.market.price_per_token >= 2
    /\ bal[VaultUsdc] = last.bal[VaultUsdc] - LastTotal

\* The vault_usdc check of a sell is reached: the market is not paused, the
\* total fits the transfer width and the seller's bond transfer succeeded.
SellCheckReached ==
    /\ ~last.market.paused
    /\ LastTotal <= U64Max
    /\ last.bal[BondOf(last.caller)] >= last.amount

\* C3: a sell fails with InsufficientVaultFunds exactly when its vault check
\* is reached and finds vault_usdc below price * quantity; after that failure
\* the seller's bond balance and vault_bond are what they were before the
\* call, although the bond transfer was issued before the check.
C3_InsufficientVaultFunds ==
    LastSell
    => /\ (last.res = "InsufficientVaultFunds")
            <=> (SellCheckReached /\ last.bal[VaultUsdc] < LastTotal)
       /\ last.res = "InsufficientVaultFunds"
            => /\ bal[BondOf(last.caller)] = last.bal[BondOf(last.caller)]
               /\ bal[VaultBond] = last.bal[VaultBond]

\* A sell of at least one bond unit, which the seller held, failed the vault
\* check.
C3_Witness ==
    /\ LastSell
    /\ last.res = "InsufficientVaultFunds"
    /\ last.amount >= 1
    /\ last.bal[BondOf(last.caller)] >= last.amount

\* C4 as claimed: whenever price * quantity overflows u128 or does not fit
\* u64, a buy or sell fails with MathOverflow and nothing changes.
C4_AsClaimed ==
    ((LastBuy \/ LastSell) /\ LastTotal > U64Max)
    => /\ last.res = "MathOverflow"
       /\ NothingChanged

\* C4 (amended): on an unpaused market, whenever price * quantity overflows
\* u128 or does not fit u64, a buy or sell fails with MathOverflow and
\* neither a balance nor a Market field changes.
C4_MathOverflow ==
    ((LastBuy \/ LastSell) /\ ~last.market.paused /\ LastTotal > U64Max)
    => /\ last.res = "MathOverflow"
       /\ NothingChanged

\* A buy whose total fits u128 but not u64 was rejected on an unpaused market
\* in which the buyer and the vault held enough for the wrapped total.
C4_Witness ==
    /\ LastBuy
    /\ ~last.market.paused
    /\ LastTotal > U64Max
    /\ LastTotal <= U128Max
    /\ last.bal[VaultBond] >= last.amount
    /\ last.res = "MathOverflow"

\* C5: while paused, every buy and every sell, whatever the caller and the
\* quantity (overflowing totals and unaffordable quantities included), fails
\* with MarketPaused and changes no balance and no Market field.
C5_PausedRejectsTrades ==
    ((LastBuy \/ LastSell) /\ last.market.paused)
    => /\ last.res = "MarketPaused"
       /\ NothingChanged

\* A buy whose total overflows u128 was rejected as MarketPaused.
C5_Witness ==
    /\ LastBuy
    /\ last.market.paused
    /\ LastTotal > U128Max
    /\ last.res = "MarketPaused"

\* The last instruction was one of the three admin instructions, on an
\* existing market.
LastAdminOp ==
    last.op \in {"UpdatePrice", "Pause", "Withdraw"} /\ last.market.exists

\* C6: only the recorded admin succeeds at update_price, pause or withdraw;
\* any other caller fails with Unauthorized and changes neither the Market
\* record nor any balance.
C6_AsClaimed ==
    LastAdminOp
    => /\ last.res = "Ok" => last.caller = last.market.admin
       /\ last.caller # last.market.admin
            => last.res = "Unauthorized" /\ NothingChanged

\* C7: a buy that finds vault_bond below the quantity fails and leaves the
\* buyer's stable and bond balances, vault_usdc and vault_bond as they were
\* and emits no trade record; when its second transfer is reached (unpaused
\* market, total within u64, buyer able to pay) the failure is that
\* transfer's insufficient-funds error, the buyer's payment having been
\* issued before it.
C7_BuyAllOrNothing ==
    (LastBuy /\ last.bal[VaultBond] < last.amount)
    => /\ last.res # "Ok"
       /\ NothingChanged
       /\ last.events = <<>>
       /\ (/\ ~last.market.paused
           /\ LastTotal <= U64Max
           /\ last.bal[UsdcOf(last.caller)] >= LastTotal)
          => last.res = "InsufficientFunds"

\* A buy whose payment of at least one stable unit went through failed at
\* the bond transfer.
C7_Witness ==
    /\ LastBuy
    /\ ~last.market.paused
    /\ LastTotal >= 1
    /\ LastTotal <= U64Max
    /\ last.bal[UsdcOf(last.caller)] >= LastTotal
    /\ last.bal[VaultBond] < last.amount
    /\ last.res = "InsufficientFunds"

\* The last two instructions were a successful buy and then a successful
\* sell of the same quantity by the same trader at the same price.
BuyThenSell ==
    /\ prev.op = "Buy"
    /\ last.op = "Sell"
    /\ prev.caller = last.caller
    /\ prev.amount = last.amount
    /\ prev.market.price_per_token = last.market.price_per_token

\* C8: after a successful buy(q) directly followed by a successful sell(q) by
\* the same trader at an unchanged price, the trader's stable and bond
\* balances and both vault balances are what they were before the buy.
C8_RoundTrip ==
    BuyThenSell
    => /\ bal[UsdcOf(last.caller)] = prev.bal[UsdcOf(last.caller)]
       /\ bal[BondOf(last.caller)] = prev.bal[BondOf(last.caller)]
       /\ bal[VaultUsdc] = prev.bal[VaultUsdc]
       /\ bal[VaultBond] = prev.bal[VaultBond]

\* A round trip that moved bonds and stable units both ways.
C8_Witness ==
    /\ BuyThenSell
    /\ last.amount >= 1
    /\ LastTotal >= 1
    /\ last.bal # prev.bal

\* The last two instructions were two successful pause calls.
PauseTwice == prev.op = "Pause" /\ last.op = "Pause"

\* C9: a successful pause sets paused to the negation of its value before
\* the call; after two consecutive successful pause calls paused has its
\* original value, and every buy or sell that would have succeeded before
\* the two calls succeeds after them.
C9_PauseToggles ==
    /\ (last.op = "Pause" /\ last.res = "Ok")
          => market.paused = ~last.market.paused
    /\ PauseTwice
          => /\ market.paused = prev.market.paused
             /\ \A u \in Users, q \in Amounts :
                  /\ BuyOutcome(prev.market, prev.bal, u, q).res = "Ok"
                        => BuyOutcome(market, bal, u, q).res = "Ok"
                  /\ SellOutcome(prev.market, prev.bal, u, q).res = "Ok"
                        => SellOutcome(market, bal, u, q).res = "Ok"

\* Two pause calls in a row on a market where some trade of at least one
\* unit succeeded beforehand.
C9_Witness ==
    /\ PauseTwice
    /\ ~prev.market.paused
    /\ \E u \in Users, q \in Amounts \ {0} :
          BuyOutcome(prev.market, prev.bal, u, q).res = "Ok"

\* The vault a withdraw draws from.
SelectedVault == IF last.is_usdc THEN VaultUsdc ELSE VaultBond

\* C10: a successful withdraw is the admin's, goes to a destination owned by
\* the admin, and moves exactly the amount from the selected vault to the
\* destination, leaving every other balance (the other vault included)
\* untouched; it succeeds whenever the admin asks for no more than the
\* selected vault holds and the destination is the admin's holding of that
\* asset; when the selected vault holds less than the amount, or the
\* destination is not owned by the admin, it fails; a failed withdraw changes
\* no balance.
C10_WithdrawEffect ==
    (last.op = "Withdraw" /\ last.market.exists)
    => /\ last.res = "Ok"
          => /\ last.caller = last.market.admin
             /\ Owner(last.destination) = last.market.admin
             /\ bal = [last.bal EXCEPT
                         ![SelectedVault] = @ - last.amount,
                         ![last.destination] = @ + last.amount]
       /\ (/\ last.caller = last.market.admin
           /\ Owner(last.destination) = last.market.admin
           /\ Mint(last.destination) = Mint(SelectedVault)
           /\ last.bal[SelectedVault] >= last.amount)
          => last.res = "Ok"
       /\ (\/ last.bal[SelectedVault] < last.amount
           \/ Owner(last.destination) # last.market.admin)
          => last.res # "Ok"
       /\ last.res # "Ok" => bal = last.bal

\* The admin withdrew at least one unit from a vault while the other vault
\* was not empty.
C10_Witness ==
    /\ last.op = "Withdraw"
    /\ last.res = "Ok"
    /\ last.amount >= 1
    /\ \E v \in {VaultUsdc, VaultBond} :
          v # SelectedVault /\ bal[v] >= 1 /\ bal[v] = last.bal[v]

\* The last instruction was a withdraw on an existing market.
LastWithdraw == last.op = "Withdraw" /\ last.market.exists

\* The last withdraw, had it been sent with the pause flag the other way
\* round and everything else the same.
WithdrawWithPauseFlipped ==
    WithdrawOutcome([last.market EXCEPT !.paused = ~last.market.paused],
                    last.bal, last.caller, last.destination, last.amount,
                    last.is_usdc)

\* C11: withdraw is not gated by paused: the result and the balances it
\* leaves are the same as they would have been with paused the other way
\* round, and withdraw never changes paused.
C11_WithdrawIgnoresPause ==
    LastWithdraw
    => /\ last.res = WithdrawWithPauseFlipped.res
       /\ bal = WithdrawWithPauseFlipped.bal
       /\ market.paused = last.market.paused

\* The admin withdrew at least one unit while the market was paused.
C11_Witness ==
    /\ LastWithdraw
    /\ last.market.paused
    /\ last.res = "Ok"
    /\ last.amount >= 1
    /\ bal[last.destination] = last.bal[last.destination] + last.amount

\* C12: a successful buy or sell emits exactly one trade record, carrying
\* the market, the caller as trader, the side of the operation, the quantity
\* and the price the total was computed from; a failed buy or sell and every
\* update_price, pause and withdraw emit none.
C12_TradeRecords ==
    /\ ((LastBuy \/ LastSell) /\ last.res = "Ok")
          => last.events =
               <<[market |-> MarketPda,
                  trader |-> last.caller,
                  side |-> last.op,
                  amount |-> last.amount,
                  price |-> last.market.price_per_token]>>
    /\ (last.op \in {"Buy", "Sell"} /\ last.res # "Ok")
          => last.events = <<>>
    /\ last.op \in {"UpdatePrice", "Pause", "Withdraw"}
          => last.events = <<>>

\* A sell of at least one unit at a non-zero price succeeded and was
\* recorded.
C12_Witness ==
    /\ LastSell
    /\ last.res = "Ok"
    /\ last.amount >= 1
    /\ last.market.price_per_token >= 1
    /\ Len(last.events) = 1

\* The last instruction was an update_price by the admin.
LastAdminUpdatePrice ==
    /\ last.op = "UpdatePrice"
    /\ last.market.exists
    /\ last.caller = last.market.admin

\* C13: update_price by the admin succeeds for every value offered, zero and
\* the largest u128 included, and sets price_per_token to exactly that
\* value; the trades that follow compute their total from it: a trade that
\* then succeeds moves new_price * quantity stable units, after the largest
\* price every trade of one unit or more on the unpaused market is a
\* MathOverflow, and at price 0 a buy of q bond units the vault holds
\* succeeds while moving no stable unit.
C13_UpdatePrice ==
    /\ LastAdminUpdatePrice
          => /\ last.res = "Ok"
             /\ market.price_per_token = last.price
             /\ \A u \in Users, q \in Amounts :
                  LET buy == BuyOutcome(market, bal, u, q)
                      sell == SellOutcome(market, bal, u, q)
                  IN  /\ buy.res = "Ok"
                         => buy.bal[VaultUsdc] = bal[VaultUsdc] + last.price * q
                      /\ sell.res = "Ok"
                         => sell.bal[VaultUsdc] = bal[VaultUsdc] - last.price * q
                      /\ (last.price = U128Max /\ q >= 1 /\ ~market.paused)
                         => /\ buy.res = "MathOverflow"
                            /\ sell.res = "MathOverflow"
    /\ (/\ LastBuy
        /\ ~last.market.paused
        /\ last.market.price_per_token = 0
        /\ last.bal[VaultBond] >= last.amount)
          => /\ last.res = "Ok"
             /\ bal[UsdcOf(last.caller)] = last.bal[UsdcOf(last.caller)]
             /\ bal[VaultUsdc] = last.bal[VaultUsdc]
             /\ bal[BondOf(last.caller)] =
                  last.bal[BondOf(last.caller)] + last.amount

\* The admin set the price to zero on an unpaused market whose vault holds
\* bonds, so that a buy of at least one unit now succeeds for free.
C13_Witness ==
    /\ LastAdminUpdatePrice
    /\ last.res = "Ok"
    /\ last.price = 0
    /\ last.market.price_per_token # 0
    /\ \E u \in Users, q \in Amounts \ {0} :
          BuyOutcome(market, bal, u, q).res = "Ok"

\* The last instruction was an initialize_market.
LastInitialize == last.op = "Initialize"

\* C14: initialize_market on a bond mint without a market creates the Market
\* with paused = FALSE, the given price, the caller as admin, both mints
\* recorded, and two empty vaults whose token authority is the market
\* account itself; on a bond mint that already has a market it fails and
\* leaves the Market record and every balance, the vaults' included, as they
\* were.
C14_Initialization ==
    /\ (LastInitialize /\ ~last.market.exists)
          => /\ last.res = "Ok"
             /\ market.exists
             /\ market.paused = FALSE
             /\ market.price_per_token = last.price
             /\ market.admin = last.caller
             /\ market.bond_mint = BondMint
             /\ market.usdc_mint = UsdcMint
             /\ Mint(market.vault_bond) = market.bond_mint
             /\ Mint(market.vault_usdc) = market.usdc_mint
             /\ Owner(market.vault_bond) = MarketPda
             /\ Owner(market.vault_usdc) = MarketPda
             /\ bal[market.vault_bond] = 0
             /\ bal[market.vault_usdc] = 0
    /\ (LastInitialize /\ last.market.exists)
          => /\ last.res # "Ok"
             /\ NothingChanged

\* initialize_market was sent again, with another price, for a market that
\* was paused and whose bond vault was not empty.
C14_Witness ==
    /\ LastInitialize
    /\ last.market.exists
    /\ last.market.paused
    /\ last.market.price_per_token # last.price
    /\ last.bal[VaultBond] >= 1

\* C15: once the market exists, no instruction (successful or failed, by any
\* caller) changes admin, bond_mint, usdc_mint, vault_bond or vault_usdc:
\* they stay what initialize_market set.
C15_ImmutableFields ==
    /\ last.market.exists
          => /\ market.exists
             /\ market.admin = last.market.admin
             /\ market.bond_mint = last.market.bond_mint
             /\ market.usdc_mint = last.market.usdc_mint
             /\ market.vault_bond = last.market.vault_bond
             /\ market.vault_usdc = last.market.vault_usdc
    /\ market.exists
          => /\ market.admin \in Creators
             /\ market.bond_mint = BondMint
             /\ market.usdc_mint = UsdcMint
             /\ market.vault_bond = VaultBond
             /\ market.vault_usdc = VaultUsdc

\* The admin has paused a market on which bonds were sold and whose price is
\* the largest there is.
C15_Witness ==
    /\ last.op = "Pause"
    /\ last.res = "Ok"
    /\ last.market.exists
    /\ market.paused
    /\ market.price_per_token = U128Max
    /\ bal[VaultBond] >= 1

\* C17: price_per_token changes only in a successful update_price by the
\* admin and paused only in a successful pause by the admin; buy, sell and
\* withdraw, successful or not, leave every Market field unchanged;
\* update_price leaves paused and all balances unchanged, and pause leaves
\* price_per_token and all balances unchanged.
C17_Frame ==
    last.market.exists
    => /\ market.price_per_token # last.market.price_per_token
          => /\ last.op = "UpdatePrice"
             /\ last.res = "Ok"
             /\ last.caller = last.market.admin
       /\ market.paused # last.market.paused
          => /\ last.op = "Pause"
             /\ last.res = "Ok"
             /\ last.caller = last.market.admin
       /\ last.op \in {"Buy", "Sell", "Withdraw"} => market = last.market
       /\ last.op = "UpdatePrice"
          => market.paused = last.market.paused /\ bal = last.bal
       /\ last.op = "Pause"
          => /\ market.price_per_token = last.market.price_per_token
             /\ bal = last.bal

\* The admin changed the price of a paused market whose vaults both hold
\* something.
C17_Witness ==
    /\ LastAdminUpdatePrice
    /\ last.res = "Ok"
    /\ last.market.paused
    /\ market.price_per_token # last.market.price_per_token
    /\ bal[VaultBond] >= 1
    /\ bal[VaultUsdc] >= 1

\* The units of one mint held over a set of token accounts.
RECURSIVE SumOver(_, _)
SumOver(b, accts) ==
    IF accts = {} THEN 0
    ELSE LET a == CHOOSE x \in accts : TRUE
         IN  b[a] + SumOver(b, accts \ {a})

\* All the units of a mint: every wallet's holding (the admin's withdraw
\* destinations are among them) and the vault.
Supply(b, mint) == SumOver(b, {a \in TokenAccounts : Mint(a) = mint})

\* C18: whatever instructions have run, the bond units over all holdings and
\* the stable units over all holdings each add up to what they were when the
\* market was created; no instruction creates or destroys a unit.
C18_Conservation ==
    \A mint \in Mints :
        /\ last.op # "none" => Supply(bal, mint) = Supply(last.bal, mint)
        /\ Supply(bal, mint) = Supply([a \in TokenAccounts |-> InitAmount(a)],
                                      mint)

\* The admin withdrew stable units that buyers had paid into the vault while
\* the other wallet holds stable units earned by selling.
C18_Witness ==
    /\ LastWithdraw
    /\ last.res = "Ok"
    /\ last.is_usdc
    /\ last.amount >= 1
    /\ bal[UsdcOf("u2")] >= 1

\* C19: vault_usdc goes down only in a successful sell, by exactly
\* price * quantity paid to the seller, who deposited quantity bond units in
\* the same instruction, or in a successful withdraw by the admin; vault_bond
\* goes down only in a successful buy, by exactly quantity delivered to the
\* buyer, who paid price * quantity stable units in the same instruction, or
\* in a successful withdraw by the admin.
C19_VaultOutflow ==
    /\ bal[VaultUsdc] < last.bal[VaultUsdc]
          => \/ /\ LastSell
                /\ last.res = "Ok"
                /\ last.bal[VaultUsdc] - bal[VaultUsdc] = LastTotal
                /\ bal[UsdcOf(last.caller)] =
                     last.bal[UsdcOf(last.caller)] + LastTotal
                /\ bal[BondOf(last.caller)] =
                     last.bal[BondOf(last.caller)] - last.amount
                /\ bal[VaultBond] = last.bal[VaultBond] + last.amount
             \/ /\ LastWithdraw
                /\ last.res = "Ok"
                /\ last.caller = last.market.admin
                /\ last.is_usdc
    /\ bal[VaultBond] < last.bal[VaultBond]
          => \/ /\ LastBuy
                /\ last.res = "Ok"
                /\ last.bal[VaultBond] - bal[VaultBond] = last.amount
                /\ bal[BondOf(last.caller)] =
                     last.bal[BondOf(last.caller)] + last.amount
                /\ bal[UsdcOf(last.caller)] =
                     last.bal[UsdcOf(last.caller)] - LastTotal
                /\ bal[VaultUsdc] = last.bal[VaultUsdc] + LastTotal
             \/ /\ LastWithdraw
                /\ last.res = "Ok"
                /\ last.caller = last.market.admin
                /\ ~last.is_usdc

\* A trader who is not the admin took stable units out of the vault by
\* selling bonds at a non-zero price.
C19_Witness ==
    /\ LastSell
    /\ last.caller # last.market.admin
    /\ bal[VaultUsdc] < last.bal[VaultUsdc]
    /\ bal[VaultBond] > last.bal[VaultBond]

\* C20: the checks of a sell run in the order paused, overflow, seller's
\* bond debit, vault_usdc sufficiency, payout: on an unpaused market a seller
\* short of bonds gets MathOverflow when the total does not fit, and
\* otherwise the bond transfer's insufficient-funds failure, not
\* InsufficientVaultFunds, even when vault_usdc is below the total as well;
\* no balance changes.
C20_SellCheckOrder ==
    (LastSell /\ last.bal[BondOf(last.caller)] < last.amount)
    => /\ last.market.paused => last.res = "MarketPaused"
       /\ (~last.market.paused /\ LastTotal > U64Max)
             => last.res = "MathOverflow"
       /\ (~last.market.paused /\ LastTotal <= U64Max)
             => last.res = "InsufficientFunds"
       /\ bal = last.bal

\* A seller short of bonds asked for a payout the vault could not cover
\* either, and got the transfer failure.
C20_Witness ==
    /\ LastSell
    /\ ~last.market.paused
    /\ LastTotal <= U64Max
    /\ last.bal[BondOf(last.caller)] < last.amount
    /\ last.bal[VaultUsdc] < LastTotal
    /\ last.res = "InsufficientFunds"

(***************************************************************************)
(* Concurrent submission.  The program holds no lock of its own: a         *)
(* transaction is executed on the accounts as loaded, and its writes are   *)
(* stored when it ends.  What keeps two transactions on one market apart   *)
(* is the write lock the runtime takes on every account a transaction      *)
(* passes as writable, and every Accounts struct of the program requires   *)
(* the market account (and the vaults it moves) to be writable (`mut`,     *)
(* `init`).  SpecConc runs rounds of two calls submitted together.         *)
(***************************************************************************)

\* The accounts of the runtime: the market account, the token accounts and
\* the wallets, all named by pairs.
MarketAccount == <<MarketPda, "state">>
Wallet(user) == <<user, "wallet">>

\* The accounts each Accounts struct requires to be writable.
InitializeWritable(c) == {MarketAccount, VaultBond, VaultUsdc, Wallet(c.caller)}
BuyWritable(c) ==
    {MarketAccount, Wallet(c.caller), UsdcOf(c.caller), BondOf(c.caller),
     VaultUsdc, VaultBond}
SellWritable(c) ==
    {MarketAccount, Wallet(c.caller), BondOf(c.caller), UsdcOf(c.caller),
     VaultBond, VaultUsdc}
UpdatePriceWritable(c) == {MarketAccount}
PauseWritable(c) == {MarketAccount}
WithdrawWritable(c) == {MarketAccount, c.destination, VaultBond, VaultUsdc}

\* Variant: no Accounts struct asks for a writable account.
Writable_NothingMut(c) == {}

Writable(c) ==
    CASE c.op = "Initialize" -> InitializeWritable(c)
      [] c.op = "Buy" -> BuyWritable(c)
      [] c.op = "Sell" -> SellWritable(c)
      [] c.op = "UpdatePrice" -> UpdatePriceWritable(c)
      [] c.op = "Pause" -> PauseWritable(c)
      [] c.op = "Withdraw" -> WithdrawWritable(c)

\* The instruction of call c, run on Market record m and balances b.
RunCall(c, m, b) ==
    CASE c.op = "Initialize" -> InitializeOutcome(m, b, c.caller, c.price)
      [] c.op = "Buy" -> BuyOutcome(m, b, c.caller, c.amount)
      [] c.op = "Sell" -> SellOutcome(m, b, c.caller, c.amount)
      [] c.op = "UpdatePrice" -> UpdatePriceOutcome(m, b, c.caller, c.price)
      [] c.op = "Pause" -> PauseOutcome(m, b, c.caller)
      [] c.op = "Withdraw" ->
            WithdrawOutcome(m, b, c.caller, c.destination, c.amount, c.is_usdc)

\* A call as submitted: the inputs of Call, from the state it will be loaded
\* in.
Submitted(op, caller, amount, price, is_usdc, destination) ==
    [op |-> op, caller |-> caller, amount |-> amount, price |-> price,
     is_usdc |-> is_usdc, destination |-> destination,
     res |-> "pending", events |-> <<>>, market |-> market, bal |-> bal]

\* The calls submitted concurrently.
ConcCalls ==
    {Submitted("Initialize", a, 0, 1, FALSE, <<"none", "none">>) :
        a \in Creators}
    \cup {Submitted("Buy", u, 1, 0, FALSE, <<"none", "none">>) : u \in Users}
    \cup {Submitted("Sell", u, 1, 0, FALSE, <<"none", "none">>) : u \in Users}
    \cup {Submitted("UpdatePrice", a, 0, p, FALSE, <<"none", "none">>) :
        a \in Creators, p \in {0, 1, 2}}
    \cup {Submitted("Pause", a, 0, 0, FALSE, <<"none", "none">>) :
        a \in Creators}
    \cup {Submitted("Withdraw", a, 1, 0, TRUE, UsdcOf(a)) : a \in Creators}
    \cup {Submitted("Withdraw", a, 1, 0, FALSE, BondOf(a)) : a \in Creators}

\* The runtime starts executing call c in slot s: it takes the write locks
\* of c's writable accounts, which no transaction in execution may hold, and
\* loads the accounts.
Begin(s, c) ==
    /\ ~inflight[s].busy
    /\ Len(round.calls) < Cardinality(Slots)
    /\ \A t \in Slots :
          inflight[t].busy
             => Writable(c) \cap Writable(inflight[t].call) = {}
    /\ inflight' = [inflight EXCEPT ![s] = [busy |-> TRUE, call |-> c]]
    /\ round' = [round EXCEPT !.calls = Append(@, c),
                              !.res = Append(@, "pending")]
    /\ UNCHANGED <<market, bal, last, prev>>

\* The position in the round of the call in slot s.
IndexOf(s) ==
    CHOOSE i \in 1..Len(round.calls) :
        /\ round.calls[i] = inflight[s].call
        /\ round.res[i] = "pending"

\* The transaction in slot s ends: its instruction has run on the accounts
\* as loaded, its writable accounts are stored, its events are logged and
\* its locks are released.
Finish(s) ==
    /\ inflight[s].busy
    /\ LET c == inflight[s].call
           done == RunCall(c, c.market, c.bal)
       IN  /\ market' = IF MarketAccount \in Writable(c)
                         THEN done.market ELSE market
           /\ bal' = [a \in TokenAccounts |->
                         IF a \in Writable(c) THEN done.bal[a] ELSE bal[a]]
           /\ round' = [round EXCEPT !.res[IndexOf(s)] = done.res,
                                     !.log = @ \o done.events,
                                     !.finished = @ + 1]
    /\ inflight' = [inflight EXCEPT ![s] = IdleSlot]
    /\ UNCHANGED <<last, prev>>

\* Every call of the round has ended.
RoundComplete ==
    /\ Len(round.calls) = Cardinality(Slots)
    /\ round.finished = Len(round.calls)

\* The next round of submissions starts from the state the last one left.
NextRound ==
    /\ RoundComplete
    /\ round' = NewRound(market, bal)
    /\ UNCHANGED <<market, bal, last, prev, inflight>>

NextConc ==
    \/ \E s \in Slots, c \in ConcCalls : Begin(s, c)
    \/ \E s \in Slots : Finish(s)
    \/ NextRound

SpecConc == Init /\ [][NextConc]_vars

\* What the round's calls i and then j give when run one after the other
\* from the state the round started in.
Serial(i, j) ==
    LET first == RunCall(round.calls[i], round.market, round.bal)
        second == RunCall(round.calls[j], first.market, first.bal)
    IN  [market |-> second.market, bal |-> second.bal,
         log |-> first.events \o second.events,
         res |-> [k \in {i, j} |-> IF k = i THEN first.res ELSE second.res]]

\* C16: the calls submitted together on one market are serialized: no two
\* are in execution at once, and when all have ended the Market record, the
\* balances, the results and the trade records emitted are those of running
\* the calls one after the other in some order.
C16_Serialized ==
    /\ Cardinality({s \in Slots : inflight[s].busy}) <= 1
    /\ RoundComplete
          => \E i, j \in 1..Len(round.calls) :
                /\ i # j
                /\ market = Serial(i, j).market
                /\ bal = Serial(i, j).bal
                /\ round.log = Serial(i, j).log
                /\ round.res[i] = Serial(i, j).res[i]
                /\ round.res[j] = Serial(i, j).res[j]

\* A sell and a withdraw of stable units were submitted together against a
\* vault that can pay only one of them: one succeeded and the other failed.
C16_Witness ==
    /\ RoundComplete
    /\ {round.calls[1].op, round.calls[2].op} = {"Sell", "Withdraw"}
    /\ \E i \in 1..2 : round.calls[i].op = "Withdraw" /\ round.calls[i].is_usdc
    /\ round.market.price_per_token = 1
    /\ ~round.market.paused
    /\ round.bal[VaultUsdc] = 1
    /\ {round.res[1], round.res[2]} # {"Ok"}
    /\ "Ok" \in {round.res[1], round.res[2]}

====
